---- MODULE Spec2Model ----
(***************************************************************************)
(* A model of action-gh-release: the find-or-update-or-create-or-retry     *)
(* workflow of release() (src/src/github.ts), GitHubReleaser.findRelease,  *)
(* publishRelease, and the orchestration of run() (src/src/main.ts),       *)
(* against a remote release service shared by concurrent runs.            *)
(*                                                                         *)
(* Strings that the code takes apart are sequences of segments: the ref    *)
(* "refs/tags/v1" is <<"refs/tags/", "v1">>, a body is the sequence of its  *)
(* lines and separators, the empty string is <<>>.                         *)
(***************************************************************************)
EXTENDS Integers, Sequences, FiniteSets, TLC

\* ------------------------------------------------------------------ bounds
\* Concurrent callers of release() on the same repository.
NumRuns == 2
\* Releases with other tags in the repository before any run starts.
MaxOther == 2
\* Failures and removals the remote side may inject in one behaviour.
MaxFaults == 1
\* Page size of the enumeration, scaled down from per_page: 100
\* (github.ts:133) so that a repository of a few releases spans pages.
PerPage == 1
\* File patterns a run may be given, and files on its disk.
MaxFiles == 2

\* --------------------------------------------------------------- statuses
\* error.status === 404 (github.ts:207)
StatusNotFound == 404
\* createRelease's failure when a release for the tag exists already
StatusConflict == 409
\* any other failure of a remote call
StatusOther == 500

Procs == 1..NumRuns

VARIABLES
    releases,   \* the remote repository's releases, newest first
    nextId,     \* the id the remote gives the next release it creates
    budget,     \* failures and removals the remote may still inject, and did
    pc,         \* each caller's position
    config,     \* each caller's Config object (run() writes to it)
    inv,        \* the locals of each caller's current release() invocation
    rel,        \* the Release each caller's release() returned
    error,      \* the error status each caller's release() threw (0: none)
    role,       \* "release": a caller of release(); "main": a run() of main.ts
    fs,         \* the files on each caller's disk
    uploads,    \* each caller's uploads: path -> "inflight", "done", "failed"
    out,        \* what each run reported: outputs, warnings, failure signal
    hist        \* what each caller did so far, for stating the claims

vars == <<releases, nextId, budget, pc, config, inv, rel, error, role, fs,
          uploads, out, hist>>

\* ------------------------------------------------------------------ strings
TagPrefix == "refs/tags/"

\* String.prototype.replace(pattern, ""): the first occurrence of the
\* segment is removed, the rest is kept.
RECURSIVE Replace(_, _)
Replace(s, pat) ==
    IF s = <<>> THEN <<>>
    ELSE IF Head(s) = pat THEN Tail(s)
    ELSE <<Head(s)>> \o Replace(Tail(s), pat)

\* a || b on strings: the empty string is falsy
OrElse(a, b) == IF a # <<>> THEN a ELSE b

\* const [owner, repo] = config.github_repository.split("/")
Owner(c) == c.github_repository[1]
Repo(c) == c.github_repository[2]

\* const tag = config.input_tag_name || config.github_ref.replace("refs/tags/", "")
TagFromRef(c) == Replace(c.github_ref, TagPrefix)
Tag(c) == OrElse(c.input_tag_name, Replace(c.github_ref, TagPrefix))

\* const name = config.input_name || tag
Name(c) == OrElse(c.input_name, Tag(c))

\* releaseBody(config), of util: the body text the config carries
releaseBody(c) == c.input_body

\* `${existingRelease.data.body}\n${releaseBody(config)}`
MergedBody(existing, c) == existing.body \o <<"\n">> \o releaseBody(c)

\* ----------------------------------------------------------- remote service
NoRelease ==
    [id |-> 0, tag_name |-> <<>>, body |-> <<>>, target_commitish |-> "",
     name |-> <<>>, draft |-> FALSE, prerelease |-> FALSE]

DefaultBranch == "main"

Indices(s) == 1..Len(s)

\* The releases of `rs` with tag `tag`.
WithTag(rs, tag) == {i \in Indices(rs) : rs[i].tag_name = tag}

\* getReleaseByTag: the non-draft release with that tag, NoRelease (a 404)
\* when there is none. Drafts are not returned by this lookup.
RemoteGetByTag(rs, tag) ==
    LET hits == {i \in WithTag(rs, tag) : ~rs[i].draft}
    IN  IF hits = {} THEN NoRelease
        ELSE rs[CHOOSE i \in hits : \A j \in hits : i <= j]

\* listReleases, page k of per_page items, drafts included.
RemotePage(rs, k) ==
    SubSeq(rs, (k - 1) * PerPage + 1,
           IF k * PerPage < Len(rs) THEN k * PerPage ELSE Len(rs))

\* the Link header's rel="next": there is a later page
RemoteHasNext(rs, k) == k * PerPage < Len(rs)

\* createRelease fails with Conflict when a release for the tag exists.
RemoteCreateConflicts(rs, p) == WithTag(rs, p.tag_name) # {}

RemoteCreated(id, p) ==
    [id |-> id, tag_name |-> p.tag_name, body |-> p.body,
     target_commitish |-> DefaultBranch, name |-> p.name,
     draft |-> p.draft, prerelease |-> p.prerelease]

\* updateRelease: a partial update, the fields the call names are set and
\* the others are left as they are.
RemoteUpdated(r, p) ==
    [id |-> r.id,
     tag_name |-> IF "tag_name" \in p.fields THEN p.tag_name ELSE r.tag_name,
     body |-> IF "body" \in p.fields THEN p.body ELSE r.body,
     target_commitish |-> IF "target_commitish" \in p.fields
                          THEN p.target_commitish ELSE r.target_commitish,
     name |-> IF "name" \in p.fields THEN p.name ELSE r.name,
     draft |-> IF "draft" \in p.fields THEN p.draft ELSE r.draft,
     prerelease |-> IF "prerelease" \in p.fields THEN p.prerelease
                    ELSE r.prerelease]

WithId(rs, id) == {i \in Indices(rs) : rs[i].id = id}

RemoveAt(s, i) == SubSeq(s, 1, i - 1) \o SubSeq(s, i + 1, Len(s))

\* The outcomes the remote may give a call: it answers, or (within the
\* budget) fails with a status that is none of the call's own.
NoBudget == [left |-> 0, used |-> 0]

Outcomes == IF budget.left > 0 THEN {"ok", "fault"} ELSE {"ok"}

Spend(o) ==
    IF o = "fault" THEN [left |-> budget.left - 1, used |-> budget.used + 1]
    ELSE budget


\* ------------------------------------------------------------ call payloads
NoParams ==
    [op |-> "none", fields |-> {}, owner |-> "", repo |-> "", release_id |-> 0,
     tag_name |-> <<>>, target_commitish |-> "", name |-> <<>>, body |-> <<>>,
     draft |-> FALSE, prerelease |-> FALSE]

\* releaser.findRelease({owner, repo, tag, draft: config.input_draft || false})
FindParams(c) ==
    [NoParams EXCEPT !.op = "find", !.fields = {"tag", "draft"},
                     !.owner = Owner(c), !.repo = Repo(c),
                     !.tag_name = Tag(c), !.draft = c.input_draft]

\* the payload of the Found branch's updateRelease
UpdateParams(c, existing) ==
    [NoParams EXCEPT !.op = "update",
                     !.fields = {"release_id", "tag_name", "target_commitish",
                                 "name", "body", "draft", "prerelease"},
                     !.owner = Owner(c), !.repo = Repo(c),
                     !.release_id = existing.id,
                     !.tag_name = Tag(c),
                     !.target_commitish = existing.target_commitish,
                     !.name = Name(c),
                     !.body = MergedBody(existing, c),
                     !.draft = c.input_draft,
                     !.prerelease = c.input_prerelease]

\* the payload of the Not-found branch's createRelease
CreateParams(c) ==
    [NoParams EXCEPT !.op = "create",
                     !.fields = {"tag_name", "name", "body", "draft",
                                 "prerelease"},
                     !.owner = Owner(c), !.repo = Repo(c),
                     !.tag_name = Tag(c),
                     !.name = Name(c),
                     !.body = releaseBody(c),
                     !.draft = c.input_draft,
                     !.prerelease = c.input_prerelease]

\* publishRelease's updateRelease: the release id and draft: false only
PublishParamsFromConfig(c, releaseId) ==
    [NoParams EXCEPT !.op = "publish",
                     !.fields = {"release_id", "tag_name", "name", "body",
                                 "draft", "prerelease"},
                     !.owner = Owner(c), !.repo = Repo(c),
                     !.release_id = releaseId,
                     !.tag_name = Tag(c), !.name = Name(c),
                     !.body = releaseBody(c), !.draft = FALSE,
                     !.prerelease = c.input_prerelease]
PublishParams(c, releaseId) ==
    [NoParams EXCEPT !.op = "publish", !.fields = {"release_id", "draft"},
                     !.owner = Owner(c), !.repo = Repo(c),
                     !.release_id = releaseId, !.draft = FALSE]

\* ------------------------------------------------------------ findRelease
\* if (params.draft) { enumerate } ... getReleaseByTag
FindStartAlwaysScans(draft) == "scan"
FindStartNeverScans(draft) == "lookup"
FindStart(draft) == IF draft THEN "scan" ELSE "lookup"

\* response.data.find(release => release.tag_name === params.tag)
RECURSIVE ArrayFind(_, _)
ArrayFind(page, tag) ==
    IF page = <<>> THEN NoRelease
    ELSE IF Head(page).tag_name = tag THEN Head(page)
    ELSE ArrayFind(Tail(page), tag)

\* One turn of the for-await loop over the pages: return the match, take
\* the next page, or fall out of the loop to the direct lookup.
ScanTurnNotFound(match, hasNext) ==
    IF match # NoRelease THEN "update"
    ELSE IF hasNext THEN "scan" ELSE "create"
ScanTurn(match, hasNext) ==
    IF match # NoRelease THEN "update"
    ELSE IF hasNext THEN "scan" ELSE "lookup"

\* ---------------------------------------------------------------- release
\* catch (error) { if (error.status === 404) { create } else { throw error } }
CatchCreatesOnAny(status) == "create"
CatchAlwaysThrows(status) == "threw"
Catch(status) == IF status = StatusNotFound THEN "create" ELSE "threw"

\* the inner catch: presume a race, return release(config, releaser)
CreateCatchRestartsRun(status) == "start"
CreateCatch(status) == "release"

NewInvocation ==
    [page |-> 0, pages |-> 0, lookups |-> 0, updates |-> 0, creates |-> 0,
     via |-> "none", existing |-> NoRelease, findDraft |-> FALSE,
     findStatus |-> 0, updateStatus |-> 0, createStatus |-> 0]


NoHistory ==
    [conflicts |-> 0, createOk |-> 0, lastFind |-> NoParams,
     lastUpdate |-> NoParams, lastCreate |-> NoParams,
     publishes |-> 0, lastPublish |-> NoParams, userDraft |-> FALSE]

\* where release()'s caller goes on when release() returns or throws
Returned(p) == IF role[p] = "main" THEN "dispatch" ELSE "returned"
Threw(p) == IF role[p] = "main" THEN "failed" ELSE "threw"

\* release(config, releaser) is entered: owner, repo and tag are computed
\* and findRelease is called; findRelease branches on params.draft.
ReleaseEnter(p) ==
    /\ pc[p] = "release"
    /\ inv' = [inv EXCEPT ![p] =
                 [NewInvocation EXCEPT !.page = 1,
                                       !.findDraft = FindParams(config[p]).draft]]
    /\ hist' = [hist EXCEPT ![p].lastFind = FindParams(config[p])]
    /\ pc' = [pc EXCEPT ![p] = FindStart(FindParams(config[p]).draft)]
    /\ UNCHANGED <<releases, nextId, budget, config, rel, error, role, fs,
                   uploads, out>>

\* findRelease, one page of the enumeration: for await (const response of
\* this.allReleases(params)) { find; if (release) return }
ScanPage(p) ==
    /\ pc[p] = "scan"
    /\ \E o \in Outcomes :
        /\ budget' = Spend(o)
        /\ IF o = "fault"
           THEN /\ pc' = [pc EXCEPT ![p] =
                            IF Catch(StatusOther) = "threw" THEN Threw(p)
                            ELSE Catch(StatusOther)]
                /\ error' = [error EXCEPT ![p] = StatusOther]
                /\ inv' = [inv EXCEPT ![p].pages = @ + 1,
                                      ![p].findStatus = StatusOther]
           ELSE LET page == RemotePage(releases, inv[p].page)
                    match == ArrayFind(page, hist[p].lastFind.tag_name)
                    next == ScanTurn(match, RemoteHasNext(releases, inv[p].page))
                IN  /\ pc' = [pc EXCEPT ![p] = next]
                    /\ inv' = [inv EXCEPT
                                 ![p].pages = @ + 1,
                                 ![p].page = IF next = "scan" THEN @ + 1 ELSE @,
                                 ![p].existing = match,
                                 ![p].via = IF match # NoRelease THEN "enum"
                                            ELSE "none"]
                    /\ error' = error
    /\ UNCHANGED <<releases, nextId, config, rel, role, fs, uploads, out, hist>>

\* findRelease's direct lookup: return await this.getReleaseByTag(params)
Lookup(p) ==
    /\ pc[p] = "lookup"
    /\ \E o \in Outcomes :
        /\ budget' = Spend(o)
        /\ LET found == RemoteGetByTag(releases, hist[p].lastFind.tag_name)
               status == IF o = "fault" THEN StatusOther
                         ELSE IF found = NoRelease THEN StatusNotFound ELSE 0
               next == IF status = 0 THEN "update"
                       ELSE IF Catch(status) = "threw" THEN Threw(p)
                       ELSE Catch(status)
           IN  /\ pc' = [pc EXCEPT ![p] = next]
               /\ inv' = [inv EXCEPT
                            ![p].lookups = @ + 1,
                            ![p].existing = IF status = 0 THEN found ELSE NoRelease,
                            ![p].via = IF status = 0 THEN "tag" ELSE "none",
                            ![p].findStatus = status]
               /\ error' = [error EXCEPT ![p] =
                              IF status # 0 /\ Catch(status) = "threw"
                              THEN status ELSE @]
    /\ UNCHANGED <<releases, nextId, config, rel, role, fs, uploads, out, hist>>

\* the Found branch: releaser.updateRelease(...) and return release.data;
\* a failure of the update lands in the same catch as a failure of the find
Update(p) ==
    /\ pc[p] = "update"
    /\ \E o \in Outcomes :
        /\ budget' = Spend(o)
        /\ LET params == UpdateParams(config[p], inv[p].existing)
               at == WithId(releases, params.release_id)
               status == IF o = "fault" THEN StatusOther
                         ELSE IF at = {} THEN StatusNotFound ELSE 0
               i == CHOOSE i \in at : TRUE
               next == IF status = 0 THEN Returned(p)
                       ELSE IF Catch(status) = "threw" THEN Threw(p)
                       ELSE Catch(status)
           IN  /\ hist' = [hist EXCEPT ![p].lastUpdate = params]
               /\ inv' = [inv EXCEPT
                            ![p].updates = @ + 1,
                            ![p].updateStatus = status]
               /\ pc' = [pc EXCEPT ![p] = next]
               /\ releases' = IF status = 0
                              THEN [releases EXCEPT
                                      ![i] = RemoteUpdated(releases[i], params)]
                              ELSE releases
               /\ rel' = [rel EXCEPT ![p] =
                            IF status = 0
                            THEN RemoteUpdated(releases[i], params) ELSE @]
               /\ error' = [error EXCEPT ![p] =
                              IF status # 0 /\ Catch(status) = "threw"
                              THEN status ELSE @]
    /\ UNCHANGED <<nextId, config, role, fs, uploads, out>>

\* the Not-found branch: releaser.createRelease(...) and return
\* release.data; any failure re-enters release(config, releaser)
Create(p) ==
    /\ pc[p] = "create"
    /\ \E o \in Outcomes :
        /\ budget' = Spend(o)
        /\ LET params == CreateParams(config[p])
               status == IF o = "fault" THEN StatusOther
                         ELSE IF RemoteCreateConflicts(releases, params)
                         THEN StatusConflict ELSE 0
               made == RemoteCreated(nextId, params)
           IN  /\ hist' = [hist EXCEPT
                             ![p].lastCreate = params,
                             ![p].createOk = IF status = 0 THEN @ + 1 ELSE @,
                             ![p].conflicts = IF status = StatusConflict
                                              THEN 1 ELSE @]
               /\ inv' = [inv EXCEPT
                            ![p].creates = @ + 1,
                            ![p].createStatus = status]
               /\ pc' = [pc EXCEPT ![p] =
                           IF status = 0 THEN Returned(p)
                           ELSE CreateCatch(status)]
               /\ releases' = IF status = 0 THEN <<made>> \o releases
                              ELSE releases
               /\ nextId' = IF status = 0 THEN nextId + 1 ELSE nextId
               /\ rel' = [rel EXCEPT ![p] = IF status = 0 THEN made ELSE @]
    /\ UNCHANGED <<config, error, role, fs, uploads, out>>

\* Someone removes a release from the repository (within the budget).
RemoteRemove ==
    /\ budget.left > 0
    /\ \E i \in Indices(releases) :
        releases' = RemoveAt(releases, i)
    /\ budget' = Spend("fault")
    /\ UNCHANGED <<nextId, pc, config, inv, rel, error, role, fs, uploads, out,
                   hist>>

\* -------------------------------------------------------------------- run
\* isTag(ref), of util: the ref starts with "refs/tags/"
isTag(ref) == ref # <<>> /\ Head(ref) = TagPrefix

\* Pattern i matches the file i, when it is on the disk.
\* unmatchedPatterns(patterns), of util: the patterns that match no file
unmatchedPatterns(patterns, disk) == {i \in patterns : i \notin disk}

\* paths(patterns), of util: the files the patterns match
paths(patterns, disk) == patterns \cap disk

NoOutput == [failed |-> "", url |-> 0, upload_url |-> 0, warned |-> {}]

MsgNoTag == "GitHub Releases requires a tag"
MsgUnmatched == "There were unmatched files"

\* error.message of a failed remote call
Message(status) == "HttpError " \o ToString(status)

\* if (!config.input_tag_name && !isTag(config.github_ref)) throw
TagMissing(c) == c.input_tag_name = <<>> /\ ~isTag(c.github_ref)

\* if (patterns.length > 0 && config.input_fail_on_unmatched_files) throw
UnmatchedIgnoresStrict(c, disk) == FALSE
UnmatchedIsFatal(c, disk) ==
    /\ unmatchedPatterns(c.input_files, disk) # {}
    /\ c.input_fail_on_unmatched_files

\* let initialConfig = config; if (config.input_draft_until_assets_uploaded)
\* initialConfig.input_draft = true: initialConfig is the same object as
\* config, so the write is to config.
InitialConfigUnchanged(c) == c
InitialConfig(c) ==
    IF c.input_draft_until_assets_uploaded
    THEN [c EXCEPT !.input_draft = TRUE] ELSE c

\* if (config.input_draft_until_assets_uploaded && !config.input_draft)
PublishIgnoresDraft(c) == c.input_draft_until_assets_uploaded
PublishWanted(c) == c.input_draft_until_assets_uploaded /\ ~c.input_draft

\* run() up to its first await: the tag check, the unmatched-files check,
\* the draft-until-uploaded override, and the call of release().
RunStart(p) ==
    /\ pc[p] = "start"
    /\ IF TagMissing(config[p])
       THEN /\ pc' = [pc EXCEPT ![p] = "failed"]
            /\ out' = [out EXCEPT ![p].failed = MsgNoTag]
            /\ config' = config
       ELSE IF UnmatchedIsFatal(config[p], fs[p])
       THEN /\ pc' = [pc EXCEPT ![p] = "failed"]
            /\ out' = [out EXCEPT
                         ![p].failed = MsgUnmatched,
                         ![p].warned = unmatchedPatterns(config[p].input_files, fs[p])]
            /\ config' = config
       ELSE /\ pc' = [pc EXCEPT ![p] = "release"]
            /\ out' = [out EXCEPT
                         ![p].warned = unmatchedPatterns(config[p].input_files, fs[p])]
            /\ config' = [config EXCEPT ![p] = InitialConfig(config[p])]
    /\ UNCHANGED <<releases, nextId, budget, inv, rel, error, role, fs, uploads,
                   hist>>

\* release() threw: catch (error) { setFailed(error.message) }
RunCatch(p) ==
    /\ pc[p] = "failed"
    /\ out[p].failed = ""
    /\ out' = [out EXCEPT ![p].failed = Message(error[p])]
    /\ UNCHANGED <<releases, nextId, budget, pc, config, inv, rel, error, role,
                   fs, uploads, hist>>

\* files.forEach(async path => { await upload(gh, rel.upload_url, path) }):
\* every upload is started, none is awaited.
DispatchAndAwait(p) ==
    /\ pc[p] = "dispatch"
    /\ uploads' = [uploads EXCEPT ![p] =
                     [f \in paths(config[p].input_files, fs[p]) |-> "done"]]
    /\ pc' = [pc EXCEPT ![p] = "dispatched"]
    /\ UNCHANGED <<releases, nextId, budget, config, inv, rel, error, role, fs,
                   out, hist>>
Dispatch(p) ==
    /\ pc[p] = "dispatch"
    /\ uploads' = [uploads EXCEPT ![p] =
                     [f \in paths(config[p].input_files, fs[p]) |-> "inflight"]]
    /\ pc' = [pc EXCEPT ![p] = "dispatched"]
    /\ UNCHANGED <<releases, nextId, budget, config, inv, rel, error, role, fs,
                   out, hist>>

\* One upload request is served by the remote: uploadReleaseAsset on the
\* upload_url of the release the run holds.
Upload(p, f) ==
    /\ f \in DOMAIN uploads[p]
    /\ uploads[p][f] = "inflight"
    /\ \E o \in Outcomes :
        /\ budget' = Spend(o)
        /\ uploads' = [uploads EXCEPT ![p][f] =
                         IF o = "fault" \/ WithId(releases, rel[p].id) = {}
                         THEN "failed" ELSE "done"]
    /\ UNCHANGED <<releases, nextId, pc, config, inv, rel, error, role, fs, out,
                   hist>>

\* publishRelease(config, releaseId, releaser): one updateRelease with the
\* release id and draft: false.
PublishStatus(o, params) ==
    IF o = "fault" THEN StatusOther
    ELSE IF WithId(releases, params.release_id) = {} THEN StatusNotFound ELSE 0

Published(params) ==
    LET i == CHOOSE i \in WithId(releases, params.release_id) : TRUE
    IN  [releases EXCEPT ![i] = RemoteUpdated(releases[i], params)]

\* if (flag && !config.input_draft) { await publishRelease(config, rel.id,
\* releaser) }: the publish call when it is wanted, nothing otherwise.
PublishStep(p) ==
    /\ pc[p] = "dispatched"
    /\ IF PublishWanted(config[p])
       THEN \E o \in Outcomes :
            LET params == PublishParams(config[p], rel[p].id)
                status == PublishStatus(o, params)
            IN  /\ budget' = Spend(o)
                /\ hist' = [hist EXCEPT ![p].publishes = @ + 1,
                                        ![p].lastPublish = params]
                /\ releases' = IF status = 0 THEN Published(params) ELSE releases
                /\ pc' = [pc EXCEPT ![p] = IF status = 0 THEN "report" ELSE "failed"]
                /\ error' = [error EXCEPT ![p] = status]
       ELSE /\ pc' = [pc EXCEPT ![p] = "report"]
            /\ UNCHANGED <<releases, budget, error, hist>>
    /\ UNCHANGED <<nextId, config, inv, rel, role, fs, uploads, out>>

\* publishRelease(config, releaseId, releaser) called on its own, with the
\* id of the release rel[p]: one updateRelease, whose data is returned or
\* whose failure is thrown.
PublishRelease(p) ==
    /\ pc[p] = "publish"
    /\ \E o \in Outcomes :
        LET params == PublishParams(config[p], rel[p].id)
            status == PublishStatus(o, params)
        IN  /\ budget' = Spend(o)
            /\ hist' = [hist EXCEPT ![p].publishes = @ + 1,
                                    ![p].lastPublish = params]
            /\ releases' = IF status = 0 THEN Published(params) ELSE releases
            /\ pc' = [pc EXCEPT ![p] = IF status = 0 THEN "returned" ELSE "threw"]
            /\ error' = [error EXCEPT ![p] = status]
    /\ UNCHANGED <<nextId, config, inv, rel, role, fs, uploads, out>>

\* setOutput("url", rel.html_url); setOutput("upload_url", rel.upload_url)
Report(p) ==
    /\ pc[p] = "report"
    /\ out' = [out EXCEPT ![p].url = rel[p].id, ![p].upload_url = rel[p].id]
    /\ pc' = [pc EXCEPT ![p] = "done"]
    /\ UNCHANGED <<releases, nextId, budget, config, inv, rel, error, role, fs,
                   uploads, hist>>

\* ------------------------------------------------------------ initial state
Repository == <<"o", "r">>
TheTag == <<"v1">>

\* The Config of caller p: its draft flag, and whether the tag comes from
\* the ref (with no name given and no prerelease) or from the tag_name
\* input (with a name and prerelease set).
Cfg(p, draft, byRef) ==
    [github_repository |-> Repository,
     github_ref |-> IF byRef THEN <<TagPrefix>> \o TheTag
                    ELSE <<"refs/heads/", "main">>,
     input_tag_name |-> IF byRef THEN <<>> ELSE TheTag,
     input_name |-> IF byRef THEN <<>> ELSE <<"name">>,
     input_body |-> <<ToString(p)>>,
     input_draft |-> draft,
     input_prerelease |-> ~byRef,
     input_draft_until_assets_uploaded |-> FALSE,
     input_fail_on_unmatched_files |-> FALSE,
     input_files |-> {}]

\* A release that was in the repository before the runs.
Old(id, tag, draft) ==
    [id |-> id, tag_name |-> tag, body |-> <<"old">>,
     target_commitish |-> "dev", name |-> <<"old">>, draft |-> draft,
     prerelease |-> FALSE]

\* k releases with other tags, newest first, ids k..1
Others(k) == [i \in 1..k |-> Old(k + 1 - i, <<"w" \o ToString(k + 1 - i)>>, FALSE)]

InsertAt(s, i, e) == SubSeq(s, 1, i - 1) \o <<e>> \o SubSeq(s, i, Len(s))

\* The repositories the runs may start from: up to MaxOther releases with
\* other tags and zero or one release, draft or not, with the runs' tag.
InitialReleases ==
    {Others(k) : k \in 0..MaxOther}
    \cup UNION {{InsertAt(Others(k), i, Old(k + 1, TheTag, d)) :
                    i \in 1..(k + 1), d \in BOOLEAN} : k \in 0..MaxOther}

\* the id of the first release the runs create
FirstNewId == MaxOther + 2

InitRemote ==
    /\ releases \in InitialReleases
    /\ nextId = FirstNewId

Fresh(active) ==
    /\ role = [p \in Procs |-> "release"]
    /\ pc = [p \in Procs |-> IF p \in active THEN "release" ELSE "idle"]
    /\ \E d \in [active -> BOOLEAN] :
        config = [p \in Procs |-> Cfg(p, p \in active /\ d[p], p % 2 = 1)]
    /\ inv = [p \in Procs |-> NewInvocation]
    /\ rel = [p \in Procs |-> NoRelease]
    /\ error = [p \in Procs |-> 0]
    /\ hist = [p \in Procs |-> [NoHistory EXCEPT !.userDraft = config[p].input_draft]]
    /\ fs = [p \in Procs |-> {}]
    /\ uploads = [p \in Procs |-> <<>>]
    /\ out = [p \in Procs |-> NoOutput]

Step(p) ==
    \/ ReleaseEnter(p)
    \/ ScanPage(p)
    \/ Lookup(p)
    \/ Update(p)
    \/ Create(p)

\* NumRuns concurrent callers of release() against a remote that answers
\* every call and injects nothing.
Init ==
    /\ InitRemote
    /\ budget = NoBudget
    /\ Fresh(Procs)

Next == \E p \in Procs : Step(p)

Spec == Init /\ [][Next]_vars

\* The same, each caller taking its next step as long as it has one: a
\* pending await resumes when the remote answers, and it answers every call.
FairSpec == Spec /\ \A p \in Procs : WF_vars(Step(p))

\* Two concurrent callers of release() against a remote that may fail
\* calls and lose releases, MaxFaults times in all.
InitFaults ==
    /\ InitRemote
    /\ budget = [left |-> MaxFaults, used |-> 0]
    /\ Fresh({1, 2})

NextFaults ==
    \/ \E p \in Procs : Step(p)
    \/ RemoteRemove

SpecFaults == InitFaults /\ [][NextFaults]_vars

\* ---------------------------------------------------------------- run()
\* One run of main.ts (caller 1) beside one competing caller of release()
\* (caller 2), from a repository with zero or one release for the tag.
Patterns == 1..MaxFiles

\* The ways a run gets its tag: from a tag ref, from the tag_name input on
\* a branch ref, from the tag_name input on the ref of another tag, or not
\* at all.
TagSources == {"ref", "input", "both", "none"}

RunCfg(p, src, draft, until, strict, n) ==
    [github_repository |-> Repository,
     github_ref |-> IF src = "ref" THEN <<TagPrefix>> \o TheTag
                    ELSE IF src = "both" THEN <<TagPrefix, "v2">>
                    ELSE <<"refs/heads/", "main">>,
     input_tag_name |-> IF src \in {"input", "both"} THEN TheTag ELSE <<>>,
     input_name |-> <<>>,
     input_body |-> <<ToString(p)>>,
     input_draft |-> draft,
     input_prerelease |-> FALSE,
     input_draft_until_assets_uploaded |-> until,
     input_fail_on_unmatched_files |-> strict,
     input_files |-> 1..n]

InitRun ==
    /\ releases \in {<<>>} \cup {<<Old(1, TheTag, d)>> : d \in BOOLEAN}
    /\ nextId = FirstNewId
    /\ budget = [left |-> MaxFaults, used |-> 0]
    /\ role = [p \in Procs |-> IF p = 1 THEN "main" ELSE "release"]
    /\ pc = [p \in Procs |-> IF p = 1 THEN "start"
                             ELSE IF p = 2 THEN "release" ELSE "idle"]
    /\ \E src \in TagSources, d \in BOOLEAN, u \in BOOLEAN, s \in BOOLEAN,
          n \in 0..MaxFiles, cd \in BOOLEAN :
        config = [p \in Procs |-> IF p = 1 THEN RunCfg(p, src, d, u, s, n)
                                  ELSE Cfg(p, cd, FALSE)]
    /\ inv = [p \in Procs |-> NewInvocation]
    /\ rel = [p \in Procs |-> NoRelease]
    /\ error = [p \in Procs |-> 0]
    /\ hist = [p \in Procs |-> [NoHistory EXCEPT !.userDraft = config[p].input_draft]]
    /\ \E m \in 0..MaxFiles : fs = [p \in Procs |-> IF p = 1 THEN 1..m ELSE {}]
    /\ uploads = [p \in Procs |-> <<>>]
    /\ out = [p \in Procs |-> NoOutput]

RunStep(p) ==
    \/ RunStart(p)
    \/ RunCatch(p)
    \/ Dispatch(p)
    \/ PublishStep(p)
    \/ Report(p)
    \/ \E f \in Patterns : Upload(p, f)

NextRun ==
    \/ \E p \in Procs : Step(p)
    \/ \E p \in Procs : RunStep(p)

SpecRun == InitRun /\ [][NextRun]_vars

\* ------------------------------------------------------- sequential runs
\* NumRuns runs of release() with the same config, one after the other, on
\* a repository with no release for the tag; the remote injects nothing.
InitSeq ==
    /\ releases \in {Others(k) : k \in 0..MaxOther}
    /\ nextId = FirstNewId
    /\ budget = NoBudget
    /\ role = [p \in Procs |-> "release"]
    /\ pc = [p \in Procs |-> "release"]
    /\ \E q \in Procs, d \in BOOLEAN, byRef \in BOOLEAN :
        config = [p \in Procs |-> Cfg(q, d, byRef)]
    /\ inv = [p \in Procs |-> NewInvocation]
    /\ rel = [p \in Procs |-> NoRelease]
    /\ error = [p \in Procs |-> 0]
    /\ hist = [p \in Procs |-> [NoHistory EXCEPT !.userDraft = config[p].input_draft]]
    /\ fs = [p \in Procs |-> {}]
    /\ uploads = [p \in Procs |-> <<>>]
    /\ out = [p \in Procs |-> NoOutput]

\* run p starts when the runs before it are over
NextSeq ==
    \E p \in Procs :
        /\ \A q \in 1..(p - 1) : pc[q] \in {"returned", "threw"}
        /\ Step(p)

SpecSeq == InitSeq /\ [][NextSeq]_vars

\* ------------------------------------------------------- publishRelease()
\* One caller of publishRelease (caller 1), given the id of any release of
\* the repository or of a release that was removed, beside one caller of
\* release() on the same repository (caller 2).
\* a release that is no longer there: its id is none the remote has or gives
Removed == Old(FirstNewId + NumRuns, TheTag, TRUE)

InitPublish ==
    /\ InitRemote
    /\ budget = [left |-> MaxFaults, used |-> 0]
    /\ role = [p \in Procs |-> IF p = 1 THEN "publish" ELSE "release"]
    /\ pc = [p \in Procs |-> IF p = 1 THEN "publish"
                             ELSE IF p = 2 THEN "release" ELSE "idle"]
    /\ \E d \in BOOLEAN, cd \in BOOLEAN :
        config = [p \in Procs |-> IF p = 1 THEN Cfg(p, d, FALSE)
                                  ELSE Cfg(p, cd, TRUE)]
    /\ inv = [p \in Procs |-> NewInvocation]
    /\ \E given \in {releases[i] : i \in Indices(releases)} \cup {Removed} :
        rel = [p \in Procs |-> IF p = 1 THEN given ELSE NoRelease]
    /\ error = [p \in Procs |-> 0]
    /\ hist = [p \in Procs |-> [NoHistory EXCEPT !.userDraft = config[p].input_draft]]
    /\ fs = [p \in Procs |-> {}]
    /\ uploads = [p \in Procs |-> <<>>]
    /\ out = [p \in Procs |-> NoOutput]

NextPublish ==
    \/ \E p \in Procs : Step(p)
    \/ \E p \in Procs : PublishRelease(p)

SpecPublish == InitPublish /\ [][NextPublish]_vars



\* ================================================================= claims
\* the releases for the runs' tag
Tagged == WithTag(releases, TheTag)

\* the remote injected no failure and removed nothing so far
Undisturbed == budget.used = 0

\* release() has returned to, or thrown at, every caller
AllComplete == \A p \in Procs : pc[p] \in {"returned", "threw"}

\* no release for the tag was there before the runs (nothing was removed,
\* and the ids from FirstNewId on are the runs' own)
StartedFromNone ==
    Undisturbed /\ \A i \in Tagged : releases[i].id >= FirstNewId

CreatedInTotal == Cardinality({p \in Procs : hist[p].createOk = 1})

\* C1: with createRelease failing with Conflict whenever a release for the
\* tag exists, at most one release for the tag exists in every state (so in
\* every state after a run completed); and when concurrent runs started
\* from no release have all completed, undisturbed, exactly one release
\* exists, createRelease succeeded exactly once in total (and in no caller
\* more than once), and every caller returned that one release.
C1_AtMostOneRelease ==
    /\ Cardinality(Tagged) <= 1
    /\ \A p \in Procs : hist[p].createOk <= 1
    /\ (AllComplete /\ StartedFromNone) =>
        /\ Cardinality(Tagged) = 1
        /\ CreatedInTotal = 1
        /\ \A p \in Procs :
            /\ pc[p] = "returned"
            /\ \A i \in Tagged : rel[p].id = releases[i].id

C1_Witness ==
    /\ AllComplete
    /\ StartedFromNone
    /\ Cardinality(Tagged) = 1
    /\ \E p \in Procs : hist[p].conflicts = 1

\* C2 (as claimed): once createRelease of a caller failed with Conflict
\* after a competing caller created the release for the tag, that caller
\* eventually returns from the Found branch (its invocation found the
\* release and issued the update), whatever the draft flags of the two.
C2_RetryReachesFound ==
    \A p \in Procs :
        [](( /\ hist[p].conflicts = 1
             /\ \E q \in Procs \ {p} : hist[q].createOk = 1 )
           => <>( /\ pc[p] = "returned"
                  /\ inv[p].via # "none"
                  /\ inv[p].updates = 1 ))


\* the runs of main.ts
Mains == {p \in Procs : role[p] = "main"}

\* the draft-until-assets-uploaded flag is on and the user asked for a
\* published (non-draft) release
WantsPublishAfterUploads(p) ==
    /\ config[p].input_draft_until_assets_uploaded
    /\ ~hist[p].userDraft

\* the create or update that gave the run its release carried draft = d
InitialCallDraft(p, d) ==
    \/ hist[p].lastUpdate.release_id = rel[p].id /\ hist[p].lastUpdate.draft = d
    \/ hist[p].createOk = 1 /\ hist[p].lastCreate.draft = d

\* C3 (as claimed): in a run with the draft-until-assets-uploaded flag on
\* and draft=false requested, the release step's create/update carried
\* draft=true, then the uploads of all matched files were dispatched, then
\* exactly one publish call (updateRelease with draft=false) was issued on
\* the id the release step returned, before the run reports.
C3_DraftUploadsPublish ==
    \A p \in Mains :
        WantsPublishAfterUploads(p) =>
            /\ pc[p] \in {"dispatch", "dispatched", "report", "done"} =>
                InitialCallDraft(p, TRUE)
            /\ pc[p] = "dispatch" => hist[p].publishes = 0
            /\ pc[p] \in {"dispatched", "report", "done"} =>
                DOMAIN uploads[p] = paths(config[p].input_files, fs[p])
            /\ pc[p] \in {"report", "done"} =>
                /\ hist[p].publishes = 1
                /\ hist[p].lastPublish.release_id = rel[p].id
                /\ hist[p].lastPublish.draft = FALSE

\* findRelease of the caller's current invocation is over
FindFinished(p) == inv[p].via # "none" \/ inv[p].findStatus # 0

\* C5 (as claimed): whenever findRelease returned an existing release, the
\* invocation issues exactly one updateRelease and no createRelease, and the
\* update carries the existing id, the existing target_commitish, the
\* resolved tag and the body existing body + "\n" + new body.
C5_FoundUpdatesOnce ==
    \A p \in Procs :
        inv[p].via # "none" =>
            /\ inv[p].creates = 0
            /\ inv[p].updates = (IF pc[p] = "update" THEN 0 ELSE 1)
            /\ inv[p].updates = 1 =>
                /\ hist[p].lastUpdate.release_id = inv[p].existing.id
                /\ hist[p].lastUpdate.target_commitish
                      = inv[p].existing.target_commitish
                /\ hist[p].lastUpdate.tag_name = Tag(config[p])
                /\ hist[p].lastUpdate.body
                      = inv[p].existing.body \o <<"\n">> \o config[p].input_body

\* C6 (as claimed): a createRelease failure with a status other than
\* Conflict is fatal: release() throws that error, and neither retries nor
\* calls the remote again.
C6_OnlyConflictRetries ==
    \A p \in Procs :
        inv[p].createStatus \notin {0, StatusConflict} =>
            /\ pc[p] = Threw(p)
            /\ error[p] = inv[p].createStatus

\* C7: when findRelease failed with a status other than 404, release() has
\* thrown that same status and issued no createRelease and no
\* updateRelease (a caller that threw takes no further step); and a caller
\* is on the create path only after a 404.
C7_FindFailurePropagates ==
    \A p \in Procs :
        /\ inv[p].findStatus \notin {0, StatusNotFound} =>
            /\ pc[p] = Threw(p)
            /\ error[p] = inv[p].findStatus
            /\ inv[p].creates = 0
            /\ inv[p].updates = 0
        /\ (pc[p] = "create" \/ inv[p].creates > 0) =>
            StatusNotFound \in {inv[p].findStatus, inv[p].updateStatus}

C7_Witness ==
    \E p \in Procs :
        /\ inv[p].findStatus = StatusOther
        /\ pc[p] = "threw"
        /\ error[p] = StatusOther

\* C8: findRelease called with draft=false fetches no page of the
\* enumeration and, once over, has done exactly one getReleaseByTag lookup;
\* a release that findRelease (draft=true) found by the enumeration has the
\* requested tag and was returned without any getReleaseByTag lookup.
C8_FindBranchesOnDraft ==
    \A p \in Procs :
        /\ ~inv[p].findDraft =>
            /\ inv[p].pages = 0
            /\ inv[p].lookups <= 1
            /\ FindFinished(p) => inv[p].lookups = 1
        /\ inv[p].via = "enum" =>
            /\ inv[p].findDraft
            /\ inv[p].lookups = 0
            /\ inv[p].existing.tag_name = hist[p].lastFind.tag_name

C8_Witness ==
    \E p \in Procs, q \in Procs :
        /\ ~inv[p].findDraft /\ inv[p].via = "tag" /\ inv[p].lookups = 1
        /\ inv[q].findDraft /\ inv[q].via = "enum"

FirstWithTag(page, tag) ==
    page[CHOOSE i \in WithTag(page, tag) : \A j \in WithTag(page, tag) : i <= j]

\* caller p is served a page of the enumeration
ScanTaken(p) ==
    pc[p] = "scan" /\ inv'[p].pages = inv[p].pages + 1 /\ budget' = budget

\* caller p is served the direct lookup that follows an enumeration
LookupAfterScanTaken(p) ==
    /\ pc[p] = "lookup" /\ inv[p].pages > 0
    /\ inv'[p].lookups = inv[p].lookups + 1 /\ budget' = budget

NoApiCall(p) ==
    /\ hist[p].lastFind = NoParams
    /\ hist[p].lastUpdate = NoParams
    /\ hist[p].lastCreate = NoParams
    /\ hist[p].publishes = 0
    /\ inv[p] = NewInvocation
    /\ uploads[p] = <<>>

\* C10: a run that has a tag and at least one pattern matching no file:
\* with the strict flag it has failed with the unmatched-files message once
\* it has started, and no remote call (find, create, update, publish,
\* upload) was issued for it; without the flag it warned about exactly the
\* unmatched patterns, did not fail for them and went on to release().
C10_UnmatchedFiles ==
    \A p \in Mains :
        LET unmatched == unmatchedPatterns(config[p].input_files, fs[p])
        IN  (unmatched # {} /\ ~TagMissing(config[p]) /\ pc[p] # "start") =>
                IF config[p].input_fail_on_unmatched_files
                THEN /\ pc[p] = "failed"
                     /\ out[p].failed = MsgUnmatched
                     /\ out[p].url = 0
                     /\ NoApiCall(p)
                ELSE /\ out[p].warned = unmatched
                     /\ out[p].failed # MsgUnmatched
                     /\ pc[p] = "release" \/ hist[p].lastFind # NoParams

C10_Witness ==
    \E p \in Mains :
        /\ unmatchedPatterns(config[p].input_files, fs[p]) # {}
        /\ paths(config[p].input_files, fs[p]) # {}
        /\ config[p].input_fail_on_unmatched_files
        /\ pc[p] = "failed"
        /\ out[p].failed = MsgUnmatched

\* the run of caller p is over: it reported its outputs or its failure
RunEnded(p) == pc[p] = "done" \/ (pc[p] = "failed" /\ out[p].failed # "")

\* an upload of caller p has failed
UploadFailed(p) == \E f \in DOMAIN uploads[p] : uploads[p][f] = "failed"

\* C11 (as claimed): a run one of whose asset uploads failed ends as a
\* failed run: the failure signal is set and the success outputs url and
\* upload_url are not reported.
C11_UploadFailureFailsRun ==
    \A p \in Mains :
        (RunEnded(p) /\ UploadFailed(p)) =>
            /\ out[p].failed # ""
            /\ out[p].url = 0
            /\ out[p].upload_url = 0

\* C12: a run whose user asked for draft=true never issues a publish call
\* (updateRelease with draft=false), with the draft-until-assets-uploaded
\* flag on or off; and a run with the flag off issues no publish call
\* whatever draft value was asked for.
C12_NoPublishOfRequestedDraft ==
    \A p \in Mains :
        (hist[p].userDraft \/ ~config[p].input_draft_until_assets_uploaded) =>
            /\ hist[p].publishes = 0
            /\ hist[p].lastPublish = NoParams

\* a run with the flag on and draft=true asked for went past its publish
\* step and reported
C12_Witness ==
    \E p \in Mains :
        /\ hist[p].userDraft
        /\ config[p].input_draft_until_assets_uploaded
        /\ pc[p] = "done"
        /\ rel[p].draft

\* the calls caller p issued through release() so far (the last find, the
\* last update and the last create; each call overwrites its predecessor,
\* so every call is the last one in the state that follows it)
ReleaseCalls(p) ==
    {hist[p].lastFind, hist[p].lastUpdate, hist[p].lastCreate} \ {NoParams}

\* C13: in a run with the draft-until-assets-uploaded flag on, every
\* findRelease, createRelease and updateRelease of the release step, the
\* ones issued after a conflict retry included, carries draft=true,
\* whatever draft value the user asked for.
C13_InitialStepIsDraft ==
    \A p \in Mains :
        config[p].input_draft_until_assets_uploaded =>
            \A call \in ReleaseCalls(p) : call.draft = TRUE

\* a run with the flag on and draft=false asked for lost the create race,
\* retried, found the release and updated it
C13_Witness ==
    \E p \in Mains :
        /\ config[p].input_draft_until_assets_uploaded
        /\ ~hist[p].userDraft
        /\ hist[p].conflicts = 1
        /\ hist[p].lastCreate # NoParams
        /\ hist[p].lastUpdate # NoParams
        /\ hist[p].lastFind # NoParams
        /\ pc[p] = "done"

\* the uploads of caller p that were started and have not completed
Inflight(p) == {f \in DOMAIN uploads[p] : uploads[p][f] = "inflight"}

\* C14: uploads are dispatched without waiting for their completion: when
\* run() goes on past the dispatch every upload it started is still
\* pending, the run's next steps (the publish step, the report of url and
\* upload_url) can be taken whatever the state of the uploads, and every
\* pending upload can be the next one to complete.
C14_UploadsNotAwaited ==
    /\ [](\A p \in Mains :
            /\ pc[p] = "dispatched" => ENABLED PublishStep(p)
            /\ pc[p] = "report" => ENABLED Report(p)
            /\ \A f \in Inflight(p) : ENABLED Upload(p, f))
    /\ [][\A p \in Mains :
            (pc[p] = "dispatch" /\ pc'[p] = "dispatched") =>
                /\ DOMAIN uploads'[p] = paths(config[p].input_files, fs[p])
                /\ Inflight(p)' = DOMAIN uploads'[p]]_vars

\* a run reported success (url and upload_url set) while its first upload
\* is still pending and its second one, dispatched later, has completed
C14_Witness ==
    \E p \in Mains :
        /\ pc[p] = "done"
        /\ out[p].failed = ""
        /\ out[p].url # 0
        /\ out[p].upload_url # 0
        /\ DOMAIN uploads[p] = {1, 2}
        /\ uploads[p][1] = "inflight"
        /\ uploads[p][2] = "done"

\* the callers of publishRelease
Publishers == {p \in Procs : role[p] = "publish"}

\* C15: a call of publishRelease issues one updateRelease, which names
\* only the release id it was given and draft=false; the step that serves
\* it changes, if it succeeds, the draft flag of the release with that id
\* to false and nothing else: that release's tag, name, body, prerelease
\* flag and target commit, and every other release, are as before, and no
\* release is added or removed. The caller is over after that one call.
C15_PublishChangesDraftOnly ==
    /\ [](\A p \in Publishers :
            /\ hist[p].publishes <= 1
            /\ pc[p] \in {"returned", "threw"} <=> hist[p].publishes = 1)
    /\ [][\A p \in Publishers :
            hist'[p].publishes # hist[p].publishes =>
                /\ hist'[p].publishes = hist[p].publishes + 1
                /\ hist'[p].lastPublish.fields = {"release_id", "draft"}
                /\ hist'[p].lastPublish.release_id = rel[p].id
                /\ hist'[p].lastPublish.draft = FALSE
                /\ Len(releases') = Len(releases)
                /\ \A i \in Indices(releases) :
                    releases'[i] =
                        IF releases[i].id = rel[p].id /\ pc'[p] = "returned"
                        THEN [releases[i] EXCEPT !.draft = FALSE]
                        ELSE releases[i]]_vars

\* publishRelease returned for a release that was a draft when its id was
\* captured and that the other caller has updated since: it is published
\* and keeps the tag, name, body and prerelease flag of that update
C15_Witness ==
    \E p \in Publishers : \E i \in Indices(releases) :
        /\ pc[p] = "returned"
        /\ rel[p].draft
        /\ releases[i].id = rel[p].id
        /\ ~releases[i].draft
        /\ releases[i].tag_name = TheTag
        /\ releases[i].body # rel[p].body
        /\ releases[i].target_commitish = rel[p].target_commitish

\* C16 (as claimed): createRelease is issued only after findRelease itself
\* failed with 404: an invocation that found a release and called
\* updateRelease never calls createRelease, and a failed updateRelease,
\* whatever its status, makes release() throw that status.
C16_UpdateFailurePropagates ==
    \A p \in Procs :
        /\ pc[p] = "create" => inv[p].findStatus = StatusNotFound
        /\ pc[p] = "create" => inv[p].updates = 0
        /\ inv[p].updateStatus # 0 =>
            /\ pc[p] = "threw"
            /\ error[p] = inv[p].updateStatus
            /\ inv[p].creates = 0

\* C17: sequential runs of release() with the same config on a tag that
\* has no release at first: there is never more than one release with the
\* tag, and exactly one once the first run is over; the first run calls
\* createRelease once, successfully, and never updateRelease; every later
\* run never calls createRelease, and is over after one updateRelease of
\* the release it found. No run throws. For draft and non-draft configs.
C17_SequentialRunsIdempotent ==
    /\ Cardinality(Tagged) <= 1
    /\ \A p \in Procs :
        /\ pc[p] # "threw"
        /\ hist[p].conflicts = 0
        /\ pc[p] = "returned" =>
            /\ Cardinality(Tagged) = 1
            /\ \A i \in Tagged : releases[i].id = rel[p].id
        /\ IF p = 1
           THEN /\ inv[p].updates = 0
                /\ inv[p].creates <= 1
                /\ pc[p] = "returned" => inv[p].creates = 1 /\ hist[p].createOk = 1
           ELSE /\ inv[p].creates = 0
                /\ hist[p].lastCreate = NoParams
                /\ inv[p].updates <= 1
                /\ pc[p] = "returned" =>
                    /\ inv[p].updates = 1
                    /\ inv[p].existing.id = rel[1].id

\* all the runs of a draft config are over
C17_Witness ==
    /\ \A p \in Procs : pc[p] = "returned" /\ config[p].input_draft
    /\ \A i \in Tagged : releases[i].draft
    /\ Len(releases) > 1

\* the values of a call that the claim compares; a find carries no name
\* and no prerelease flag
Carried(call) ==
    [owner |-> call.owner, repo |-> call.repo, tag |-> call.tag_name,
     draft |-> call.draft]

\* caller p is inside release(), or in what run() does after it
InRelease(p) == pc[p] \in {"release", "scan", "lookup", "update", "create"}

\* C18: from the moment release() is entered the config is not modified,
\* by a conflict retry or otherwise; every find, create and update of one
\* release() invocation and of its retries carries the same owner, repo,
\* tag and draft, and the creates and updates the same name and prerelease
\* flag; a retry re-enters release() and nothing before it: the
\* unmatched-files check is not evaluated again (the warnings stay as they
\* are) and no file list is resolved (no upload is dispatched) before
\* release() has returned.
C18_NoDriftAcrossRetries ==
    /\ [](\A p \in Procs :
            /\ \A a, b \in ReleaseCalls(p) : Carried(a) = Carried(b)
            /\ \A a, b \in ReleaseCalls(p) \ {hist[p].lastFind} :
                a.name = b.name /\ a.prerelease = b.prerelease
            /\ InRelease(p) => uploads[p] = <<>>)
    /\ [][\A p \in Procs :
            /\ pc[p] # "start" =>
                /\ config'[p] = config[p]
                /\ pc'[p] # "start"
                /\ out'[p].warned = out[p].warned
            /\ (hist[p].lastFind # NoParams /\ InRelease(p)) =>
                hist'[p].lastFind = hist[p].lastFind
            /\ (hist[p].lastCreate # NoParams /\ InRelease(p)) =>
                hist'[p].lastCreate = hist[p].lastCreate]_vars

\* a run that warned about an unmatched pattern, whose createRelease
\* failed with Conflict, and which retried, found the release and updated it
C18_Witness ==
    \E p \in Mains :
        /\ hist[p].conflicts = 1
        /\ inv[p].createStatus = 0
        /\ inv[p].updates = 1
        /\ hist[p].lastCreate # NoParams
        /\ hist[p].lastUpdate # NoParams
        /\ pc[p] = "dispatch"
        /\ out[p].warned # {}

\* C19: a run with no tag_name override and a ref that is not a tag ref
\* ends with the requires-a-tag failure and issues no remote call (find,
\* create, update, publish, upload); in a run with an override or a tag
\* ref every call of release() carries the override as its tag when there
\* is one (also when the ref is the ref of another tag), and otherwise the
\* ref without its "refs/tags/" prefix.
C19_TagRequiredAndResolved ==
    \A p \in Mains :
        IF config[p].input_tag_name = <<>> /\ ~isTag(config[p].github_ref)
        THEN /\ pc[p] \in {"start", "failed"}
             /\ pc[p] = "failed" => out[p].failed = MsgNoTag
             /\ out[p].url = 0
             /\ NoApiCall(p)
        ELSE \A call \in ReleaseCalls(p) :
                call.tag_name =
                    IF config[p].input_tag_name # <<>>
                    THEN config[p].input_tag_name
                    ELSE Tail(config[p].github_ref)

\* a run on a branch ref, with no override and with files to upload, has
\* failed with the requires-a-tag message
C19_Witness ==
    \E p \in Mains :
        /\ config[p].input_tag_name = <<>>
        /\ config[p].github_ref = <<"refs/heads/", "main">>
        /\ config[p].input_files # {}
        /\ pc[p] = "failed"
        /\ out[p].failed = MsgNoTag

====
